---- MODULE Spec2Model ----
(***************************************************************************)
(* REINFORCE with a learned baseline                                       *)
(* (Policy_Gradients_REINFORCE_learned_baseline.ipynb): the two-headed     *)
(* network Net, the return computation compute_returns and the training   *)
(* loop reinforce_learned_baseline.                                        *)
(*                                                                         *)
(* Numbers are exact rationals <<n, d>> (d > 0, lowest terms).  A tensor   *)
(* is abstracted to its number of elements, the parameter groups on its    *)
(* autograd graph and whether it holds NaN.                                *)
(***************************************************************************)
EXTENDS Integers, Sequences, FiniteSets

VARIABLES
    pc,                  \* position in reinforce_learned_baseline / compute_returns call
    gamma,               \* hyperparameter gamma (discount factor)
    episode,             \* loop variable of line 333
    t,                   \* iterations of the loop of line 343 completed in this episode
    state,               \* current observation
    dist,                \* last distribution returned by net(state)
    action,              \* last sampled action
    done,                \* last termination signal of env.step
    log_probs,           \* trajectory buffer
    values,              \* trajectory buffer
    rewards,             \* trajectory buffer
    scores,              \* score history (local of reinforce_learned_baseline)
    scores_deque,        \* deque(maxlen)
    raw_returns,         \* returns of compute_returns before normalisation (line 272)
    returns,             \* result of compute_returns (line 275)
    policy_loss,
    value_function_loss,
    loss,
    params,              \* the network's parameter groups
    updates,             \* number of optimizer.step() calls made
    reported,            \* last progress line printed
    caller_scores        \* the caller's variable `scores` (line 461)

vars == <<pc, gamma, episode, t, state, dist, action, done, log_probs, values, rewards,
          scores, scores_deque, raw_returns, returns, policy_loss,
          value_function_loss, loss, params, updates, reported, caller_scores>>

(***************************************************************************)
(* Bounds of the model and program constants.                              *)
(***************************************************************************)
MaxEpisodes == 4
MaxSteps == 2
DequeMaxLen == 2
ReportEvery == 2
MaxRewards == 3

s_size == 8
h_size == 128
a_size == 4
v_size == 1

Max(a, b) == IF a > b THEN a ELSE b

(***************************************************************************)
(* Exact rational arithmetic.                                              *)
(***************************************************************************)
Abs(n) == IF n < 0 THEN -n ELSE n

RECURSIVE GCD(_, _)
GCD(a, b) == IF b = 0 THEN a ELSE GCD(b, a % b)

Rat(n, d) ==
    LET g == GCD(Abs(n), Abs(d))
        s == IF d < 0 THEN -1 ELSE 1
    IN  <<(s * n) \div g, (s * d) \div g>>

Zero == <<0, 1>>
One == <<1, 1>>
Half == <<1, 2>>
RInt(n) == <<n, 1>>

RAdd(a, b) ==
    LET g == GCD(a[2], b[2])
    IN  Rat(a[1] * (b[2] \div g) + b[1] * (a[2] \div g), (a[2] \div g) * b[2])

RNeg(a) == <<-a[1], a[2]>>
RSub(a, b) == RAdd(a, RNeg(b))

RMul(a, b) ==
    LET g1 == GCD(Abs(a[1]), b[2])
        g2 == GCD(Abs(b[1]), a[2])
    IN  Rat((a[1] \div g1) * (b[1] \div g2), (a[2] \div g2) * (b[2] \div g1))

RDivInt(a, n) == RMul(a, <<1, n>>)
RDiv(a, b) == RMul(a, Rat(b[2], b[1]))

RECURSIVE RSum(_)
RSum(s) == IF s = <<>> THEN Zero ELSE RAdd(s[1], RSum(Tail(s)))

RECURSIVE SumInt(_)
SumInt(s) == IF s = <<>> THEN 0 ELSE s[1] + SumInt(Tail(s))

(***************************************************************************)
(* compute_returns.                                                        *)
(***************************************************************************)
\* one pass of the loop body of lines 270-271, for step = Len(rewards) .. 1
RECURSIVE returns_loop(_, _, _, _, _)
returns_loop(rs, g, step, R, acc) ==
    IF step = 0 THEN acc
    ELSE LET R2 == RAdd(RInt(rs[step]), RMul(g, R))
         IN  returns_loop(rs, g, step - 1, R2, <<R2>> \o acc)

\* the loop with returns.append(R) in place of returns.insert(0, R)
RECURSIVE returns_loop_append(_, _, _, _, _)
returns_loop_append(rs, g, step, R, acc) ==
    IF step = 0 THEN acc
    ELSE LET R2 == RAdd(RInt(rs[step]), RMul(g, R))
         IN  returns_loop_append(rs, g, step - 1, R2, Append(acc, R2))

discounted_returns_append(rs, g) == returns_loop_append(rs, g, Len(rs), Zero, <<>>)

\* lines 267-272: the discounted returns before normalisation
discounted_returns(rs, g) == returns_loop(rs, g, Len(rs), Zero, <<>>)

\* numpy ndarray.mean()
mean(x) == RDivInt(RSum(x), Len(x))

\* returns -= returns.mean()
sub_mean(x) == LET m == mean(x) IN [i \in 1..Len(x) |-> RSub(x[i], m)]

\* numpy ndarray.std(): sqrt(mean(abs(x - x.mean())**2)), kept as its square
std_nosqrt(x) ==
    LET d == sub_mean(x)
        v == mean([i \in 1..Len(x) |-> RMul(d[i], d[i])])
    IN  [sq |-> RMul(v, v)]
std(x) ==
    LET d == sub_mean(x)
    IN  [sq |-> mean([i \in 1..Len(x) |-> RMul(d[i], d[i])])]

\* IEEE division q / s of a float q by the float s = sqrt(s.sq): the quotient
\* q / sqrt(rad), NaN for 0/0 and an infinity for q/0
NaN == [kind |-> "nan", q |-> Zero, rad |-> One]
Inf == [kind |-> "inf", q |-> Zero, rad |-> One]
fdiv(q, s) ==
    IF s.sq = Zero
    THEN (IF q = Zero THEN NaN ELSE Inf)
    ELSE [kind |-> "num", q |-> q, rad |-> s.sq]

\* lines 273-274
normalize(x) ==
    LET d == sub_mean(x)
        s == std(d)
    IN  [i \in 1..Len(x) |-> fdiv(d[i], s)]

compute_returns(rs, g) == normalize(discounted_returns(rs, g))

HasNaN(x) == \E i \in 1..Len(x) : x[i].kind # "num"

(***************************************************************************)
(* Tensors and the network Net.                                            *)
(***************************************************************************)
Groups == {"fc_shared", "fc_policy", "fc_value_function"}
Observations == {"o1", "o2"}
EnvRewards == {0, 1}
RewardValues == {-1, 0, 1, 10}
Gammas == {Half, <<3, 4>>, One}

Tensor(n, deps, nan) == [size |-> n, deps |-> deps, nan |-> nan]

\* torch.from_numpy(state).float()
from_numpy(obs) == Tensor(s_size, {}, FALSE)

\* nn.Linear(in, out) applied to x: the layer's parameters join the autograd graph
Linear(layer, out, x, p) == Tensor(out, x.deps \cup {layer}, x.nan \/ p[layer].nan)

relu(x) == x

\* torch.distributions.Categorical(logits=...): one category per logit
Categorical(logits) == [n |-> logits.size, deps |-> logits.deps, nan |-> logits.nan]

\* Net.forward
Net_forward(p, x) ==
    LET h == relu(Linear("fc_shared", h_size, x, p))
        logits == Linear("fc_policy", a_size, h, p)
        value == Linear("fc_value_function", v_size, h, p)
    IN  [dist |-> Categorical(value), value |-> value]

\* the outcomes of dist.sample()
sample(d) == 0 .. (d.n - 1)

\* dist.log_prob(action).unsqueeze(0)
log_prob(d, a) == Tensor(1, d.deps, d.nan)

\* torch.cat of a list of tensors
RECURSIVE cat(_)
cat(xs) ==
    IF xs = <<>> THEN Tensor(0, {}, FALSE)
    ELSE LET r == cat(Tail(xs))
         IN  Tensor(xs[1].size + r.size, xs[1].deps \cup r.deps, xs[1].nan \/ r.nan)

\* an elementwise binary operation (-, *, +)
binop(a, b) == Tensor(Max(a.size, b.size), a.deps \cup b.deps, a.nan \/ b.nan)

detach(x) == Tensor(x.size, {}, x.nan)

torch_sum(x) == Tensor(1, x.deps, x.nan)

\* torch.from_numpy(returns).float()
returns_tensor(x) == Tensor(Len(x), {}, HasNaN(x))

\* optimizer.zero_grad(); loss.backward(); optimizer.step(): Adam updates the
\* parameters that received a gradient, those on the loss's autograd graph
optimizer_step(p, l) ==
    [g \in Groups |->
        IF g \in l.deps
        THEN [ver |-> p[g].ver + 1, nan |-> p[g].nan \/ l.nan]
        ELSE p[g]]

\* deque(maxlen).append
deque_append_noevict(dq, x) == Append(dq, x)
deque_append(dq, x) ==
    IF Len(dq) = DequeMaxLen THEN Append(Tail(dq), x) ELSE Append(dq, x)

\* np.mean of a non-empty sequence of integers
np_mean(xs) == Rat(SumInt(xs), Len(xs))

(***************************************************************************)
(* The state after construction (lines 317-332).                           *)
(***************************************************************************)
NoTensor == Tensor(0, {}, FALSE)
NoDist == [n |-> 0, deps |-> {}, nan |-> FALSE]
NoReport == [episode |-> 0, avg |-> Zero]
Unbound == [bound |-> FALSE, val |-> <<>>]

Locals ==
    /\ episode = 1
    /\ t = 0
    /\ state = "o1"
    /\ dist = NoDist
    /\ action = 0
    /\ done = FALSE
    /\ log_probs = <<>>
    /\ values = <<>>
    /\ scores = <<>>
    /\ scores_deque = <<>>
    /\ raw_returns = <<>>
    /\ returns = <<>>
    /\ policy_loss = NoTensor
    /\ value_function_loss = NoTensor
    /\ loss = NoTensor
    /\ params = [g \in Groups |-> [ver |-> 0, nan |-> FALSE]]
    /\ updates = 0
    /\ reported = NoReport
    /\ caller_scores = Unbound

Init ==
    /\ pc = "episode_start"
    /\ gamma \in Gammas
    /\ rewards = <<>>
    /\ Locals

(***************************************************************************)
(* reinforce_learned_baseline.                                             *)
(***************************************************************************)
\* lines 338-342
EpisodeStartNoReset ==
    /\ pc = "episode_start"
    /\ log_probs' = <<>>
    /\ values' = <<>>
    /\ \E obs \in Observations : state' = obs
    /\ t' = 0
    /\ pc' = "collect"
    /\ UNCHANGED <<done, gamma, episode, dist, action, rewards, scores, scores_deque,
                   raw_returns, returns, policy_loss, value_function_loss, loss,
                   params, updates, reported, caller_scores>>
EpisodeStart ==
    /\ pc = "episode_start"
    /\ log_probs' = <<>>
    /\ values' = <<>>
    /\ rewards' = <<>>
    /\ \E obs \in Observations : state' = obs
    /\ t' = 0
    /\ pc' = "collect"
    /\ UNCHANGED <<done, gamma, episode, dist, action, scores, scores_deque,
                   raw_returns, returns, policy_loss, value_function_loss, loss,
                   params, updates, reported, caller_scores>>

\* the collection loop without the break of lines 363-364
EnvStepNoBreak ==
    /\ pc = "collect"
    /\ t < MaxSteps
    /\ LET out == Net_forward(params, from_numpy(state))
       IN  /\ dist' = out.dist
           /\ \E a \in sample(out.dist) : \E obs \in Observations :
              \E reward \in EnvRewards : \E d \in BOOLEAN :
                /\ action' = a
                /\ done' = d
                /\ state' = obs
                /\ rewards' = Append(rewards, reward)
                /\ log_probs' = Append(log_probs, log_prob(out.dist, a))
                /\ values' = Append(values, out.value)
                /\ t' = t + 1
                /\ pc' = IF t + 1 = MaxSteps THEN "record_score" ELSE "collect"
    /\ UNCHANGED <<gamma, episode, scores, scores_deque, raw_returns, returns,
                   policy_loss, value_function_loss, loss, params, updates,
                   reported, caller_scores>>

\* lines 343-364: one iteration of the collection loop
EnvStep ==
    /\ pc = "collect"
    /\ t < MaxSteps
    /\ LET out == Net_forward(params, from_numpy(state))
       IN  /\ dist' = out.dist
           /\ \E a \in sample(out.dist) : \E obs \in Observations :
              \E reward \in EnvRewards : \E d \in BOOLEAN :
                /\ action' = a
                /\ done' = d
                /\ state' = obs
                /\ rewards' = Append(rewards, reward)
                /\ log_probs' = Append(log_probs, log_prob(out.dist, a))
                /\ values' = Append(values, out.value)
                /\ t' = t + 1
                /\ pc' = IF d \/ t + 1 = MaxSteps THEN "record_score" ELSE "collect"
    /\ UNCHANGED <<gamma, episode, scores, scores_deque, raw_returns, returns,
                   policy_loss, value_function_loss, loss, params, updates,
                   reported, caller_scores>>

\* line 350 on a distribution whose probabilities are NaN: torch.multinomial may
\* raise; the exception leaves reinforce_learned_baseline, whose locals are lost
SampleRaises ==
    /\ pc = "collect"
    /\ t < MaxSteps
    /\ LET out == Net_forward(params, from_numpy(state))
       IN  /\ out.dist.nan
           /\ dist' = out.dist
    /\ pc' = "error"
    /\ UNCHANGED <<done, gamma, episode, t, state, action, log_probs, values, rewards,
                   scores, scores_deque, raw_returns, returns, policy_loss,
                   value_function_loss, loss, params, updates, reported,
                   caller_scores>>

\* lines 367-368
RecordScore ==
    /\ pc = "record_score"
    /\ scores' = Append(scores, SumInt(rewards))
    /\ scores_deque' = deque_append(scores_deque, SumInt(rewards))
    /\ pc' = "return_computation"
    /\ UNCHANGED <<done, gamma, episode, t, state, dist, action, log_probs, values,
                   rewards, raw_returns, returns, policy_loss,
                   value_function_loss, loss, params, updates, reported,
                   caller_scores>>

\* lines 373-374
ReturnComputation ==
    /\ pc = "return_computation"
    /\ raw_returns' = discounted_returns(rewards, gamma)
    /\ returns' = compute_returns(rewards, gamma)
    /\ pc' = "loss_assembly"
    /\ UNCHANGED <<done, gamma, episode, t, state, dist, action, log_probs, values,
                   rewards, scores, scores_deque, policy_loss,
                   value_function_loss, loss, params, updates, reported,
                   caller_scores>>

\* lines 379-399; the tensors torch.cat(values) and torch.cat(log_probs) of
\* lines 379-380 are held in the LET
LossAssembly ==
    /\ pc = "loss_assembly"
    /\ LET rt == returns_tensor(returns)
           vs == cat(values)
           lps == cat(log_probs)
           delta == detach(binop(rt, vs))
           pl == torch_sum(binop(lps, delta))
           vl == torch_sum(binop(rt, vs))
       IN  /\ policy_loss' = pl
           /\ value_function_loss' = vl
           /\ loss' = binop(pl, vl)
    /\ pc' = "parameter_update"
    /\ UNCHANGED <<done, gamma, episode, t, state, dist, action, log_probs, values,
                   rewards, scores, scores_deque, raw_returns, returns, params,
                   updates, reported, caller_scores>>

\* lines 404-406
ParameterUpdateSkipped ==
    /\ pc = "parameter_update"
    /\ pc' = "episode_end"
    /\ UNCHANGED <<done, gamma, episode, t, state, dist, action, log_probs, values,
                   rewards, scores, scores_deque, raw_returns, returns,
                   policy_loss, value_function_loss, loss, params, updates,
                   reported, caller_scores>>
ParameterUpdate ==
    /\ pc = "parameter_update"
    /\ params' = optimizer_step(params, loss)
    /\ updates' = updates + 1
    /\ pc' = "episode_end"
    /\ UNCHANGED <<done, gamma, episode, t, state, dist, action, log_probs, values,
                   rewards, scores, scores_deque, raw_returns, returns,
                   policy_loss, value_function_loss, loss, reported,
                   caller_scores>>

\* lines 408-409 and the loop header of line 333
EpisodeEnd ==
    /\ pc = "episode_end"
    /\ reported' = IF episode % ReportEvery = 0
                   THEN [episode |-> episode, avg |-> np_mean(scores_deque)]
                   ELSE reported
    /\ episode' = IF episode < MaxEpisodes THEN episode + 1 ELSE episode
    /\ pc' = IF episode < MaxEpisodes THEN "episode_start" ELSE "return"
    /\ UNCHANGED <<done, gamma, t, state, dist, action, log_probs, values, rewards,
                   scores, scores_deque, raw_returns, returns, policy_loss,
                   value_function_loss, loss, params, updates, caller_scores>>

\* line 411 and the caller's assignment of line 461
Return ==
    /\ pc = "return"
    /\ caller_scores' = [bound |-> TRUE, val |-> scores]
    /\ pc' = "done"
    /\ UNCHANGED <<done, gamma, episode, t, state, dist, action, log_probs, values,
                   rewards, scores, scores_deque, raw_returns, returns,
                   policy_loss, value_function_loss, loss, params, updates,
                   reported>>

Next ==
    \/ EpisodeStart
    \/ EnvStep
    \/ SampleRaises
    \/ RecordScore
    \/ ReturnComputation
    \/ LossAssembly
    \/ ParameterUpdate
    \/ EpisodeEnd
    \/ Return

Spec == Init /\ [][Next]_vars

(***************************************************************************)
(* compute_returns on its own: every reward sequence of up to MaxRewards   *)
(* rewards and every discount factor of Gammas.                            *)
(***************************************************************************)
RECURSIVE SeqsUpTo(_, _)
SeqsUpTo(S, n) ==
    IF n = 0 THEN {<<>>}
    ELSE LET shorter == SeqsUpTo(S, n - 1)
         IN  shorter \cup {Append(s, x) : s \in shorter, x \in S}

InitReturns ==
    /\ pc = "call"
    /\ gamma \in Gammas
    /\ rewards \in (SeqsUpTo(RewardValues, MaxRewards) \ {<<>>})
    /\ Locals

CallComputeReturns ==
    /\ pc = "call"
    /\ raw_returns' = discounted_returns(rewards, gamma)
    /\ returns' = compute_returns(rewards, gamma)
    /\ pc' = "returned"
    /\ UNCHANGED <<done, gamma, episode, t, state, dist, action, log_probs, values,
                   rewards, scores, scores_deque, policy_loss,
                   value_function_loss, loss, params, updates, reported,
                   caller_scores>>

NextReturns == CallComputeReturns

SpecReturns == InitReturns /\ [][NextReturns]_vars

(***************************************************************************)
(* Properties.                                                             *)
(***************************************************************************)
Suffix(xs, n) == SubSeq(xs, Len(xs) - n + 1, Len(xs))

AllEqual(x) == \A i, j \in 1..Len(x) : x[i] = x[j]

\* the mean and the standard deviation of a vector of floats q / sqrt(rad)
\* sharing one radicand: mean = mean(q) / sqrt(rad), std^2 = mean((q - mean(q))^2) / rad
MeanZeroStdOne(x) ==
    /\ \A i \in 1..Len(x) : x[i].kind = "num" /\ x[i].rad = x[1].rad
    /\ LET q == [i \in 1..Len(x) |-> x[i].q]
           d == sub_mean(q)
       IN  /\ mean(q) = Zero
           /\ RDiv(mean([i \in 1..Len(x) |-> RMul(d[i], d[i])]), x[1].rad) = One

\* C1: the distribution returned by Net.forward has one category per action
\* (a_size = 4), so dist.sample() can return each of the actions 0..3.
C1_DistHasActionSpaceCardinality ==
    dist # NoDist => (dist.n = a_size /\ sample(dist) = 0 .. (a_size - 1))

\* C2: the returns before normalisation have the rewards' length and order:
\* G[n] = r[n] and G[k] = r[k] + gamma * G[k+1]; [1,1,1] with gamma 1 gives
\* [3,2,1] and [0,0,10] with gamma 1/2 gives [5/2, 5, 10].
C2_DiscountedReturns ==
    pc = "returned" =>
        LET n == Len(rewards)
        IN  /\ Len(raw_returns) = n
            /\ raw_returns[n] = RInt(rewards[n])
            /\ \A k \in 1..(n - 1) :
                 raw_returns[k] = RAdd(RInt(rewards[k]), RMul(gamma, raw_returns[k + 1]))
            /\ (rewards = <<1, 1, 1>> /\ gamma = One)
                 => raw_returns = <<<<3, 1>>, <<2, 1>>, <<1, 1>>>>
            /\ (rewards = <<0, 0, 10>> /\ gamma = Half)
                 => raw_returns = <<<<5, 2>>, <<5, 1>>, <<10, 1>>>>

C2_Witness ==
    /\ pc = "returned"
    /\ rewards = <<0, 0, 10>>
    /\ gamma = Half
    /\ raw_returns = <<<<5, 2>>, <<5, 1>>, <<10, 1>>>>

\* C3: for a single reward the result of compute_returns is a defined number,
\* never NaN (no division of zero by a zero standard deviation).
C3_SingleRewardIsDefined ==
    (pc = "returned" /\ Len(rewards) = 1) => ~HasNaN(returns)

C5_OneUpdatePerEpisode ==
    /\ pc \in {"episode_start", "collect", "record_score", "return_computation",
               "loss_assembly", "parameter_update", "error"}
         => updates = episode - 1
    /\ pc \in {"episode_end", "return", "done"} => updates = episode
    /\ pc = "done" => updates = MaxEpisodes

C5_Witness == pc = "done" /\ updates = MaxEpisodes /\ Len(scores) = MaxEpisodes

\* C6: the sliding window is the suffix of the score history of length
\* min(maxlen, len(scores)), in order, and the reported rolling average is the
\* arithmetic mean of the last min(maxlen, n) scores of the n recorded.
C6_WindowIsSuffixOfScores ==
    /\ scores_deque = Suffix(scores, IF Len(scores) < DequeMaxLen THEN Len(scores) ELSE DequeMaxLen)
    /\ reported.episode > 0 =>
         reported.avg = np_mean(SubSeq(scores,
                                       Max(1, reported.episode - DequeMaxLen + 1),
                                       reported.episode))

C6_Witness ==
    /\ reported.episode > DequeMaxLen
    /\ Len(scores_deque) = DequeMaxLen
    /\ scores[1] # scores[reported.episode]
    /\ reported.avg # np_mean(SubSeq(scores, 1, reported.episode))

\* C7: one training step changes the parameters of all three groups: after k
\* optimizer steps each of fc_shared, fc_policy and fc_value_function has been
\* changed k times.
C7_AllGroupsUpdated ==
    \A g \in Groups : params[g].ver = updates

\* C8: the policy loss has no differentiable path to the value head: the
\* advantage is detached and the log-probabilities come from the policy head,
\* so fc_value_function is not on the policy loss's autograd graph.
C8_PolicyLossIndependentOfValueHead ==
    policy_loss # NoTensor => "fc_value_function" \notin policy_loss.deps

\* C9: when the run fails with an error the caller holds the scores recorded
\* up to the failure.
C9_PartialScoresRetained ==
    pc = "error" => caller_scores = [bound |-> TRUE, val |-> scores]

\* C10: after every environment step and at the end of collection the three
\* buffers have the same length, the number of steps taken in this episode;
\* nothing of an earlier episode is carried over.
C10_BuffersHaveEqualLength ==
    pc \in {"collect", "record_score", "return_computation", "loss_assembly",
            "parameter_update", "episode_end", "error"}
      => /\ Len(log_probs) = t
         /\ Len(values) = t
         /\ Len(rewards) = t
         /\ t <= MaxSteps

C10_Witness ==
    /\ pc = "collect"
    /\ episode = 2
    /\ t = 1
    /\ Len(scores) = 1
    /\ Len(rewards) = 1 /\ Len(values) = 1 /\ Len(log_probs) = 1

Collected ==
    pc \in {"record_score", "return_computation", "loss_assembly",
            "parameter_update", "episode_end"}

\* within episode k, whether its score has been recorded
Recorded ==
    pc \in {"return_computation", "loss_assembly", "parameter_update",
            "episode_end", "return", "done"}

\* the steps left to the run at most: the episodes to come, then the steps
\* left to this episode
StepsLeft ==
    (MaxEpisodes - episode) * (MaxSteps + 8)
      + (CASE pc = "episode_start" -> MaxSteps + 7
           [] pc = "collect" -> (MaxSteps - t) + 6
           [] pc = "record_score" -> 6
           [] pc = "return_computation" -> 5
           [] pc = "loss_assembly" -> 4
           [] pc = "parameter_update" -> 3
           [] pc = "episode_end" -> 2
           [] pc = "return" -> 1
           [] OTHER -> 0)

\* C11: the collection loop of an episode goes on only while the environment
\* has not signalled done and ends at the first done or after MaxSteps steps,
\* so a trajectory has between 1 and MaxSteps steps, and a step of the loop
\* can always be taken (the step cap is not reached, an action can be
\* sampled); the score history is append-only with the score of episode k at
\* position k; every step of the run brings its end nearer (StepsLeft
\* decreases), and a run that returns does so after exactly MaxEpisodes
\* episodes, with one score per episode handed to the caller; an error comes
\* only from NaN parameters.
C11_EpisodesAndRunTerminate ==
    /\ [](/\ (pc = "collect" /\ t > 0) => ~done
          /\ pc = "collect" =>
                /\ t < MaxSteps
                /\ sample(Net_forward(params, from_numpy(state)).dist) # {}
          /\ Collected => (t >= 1 /\ t <= MaxSteps /\ (done \/ t = MaxSteps))
          /\ Len(scores) = (IF Recorded THEN episode ELSE episode - 1)
          /\ (Recorded /\ pc # "done" /\ pc # "return")
               => scores[episode] = SumInt(rewards)
          /\ pc \in {"return", "done"} => episode = MaxEpisodes
          /\ pc = "done" => (/\ Len(scores) = MaxEpisodes
                             /\ caller_scores = [bound |-> TRUE, val |-> scores])
          /\ pc = "error" => (\E g \in Groups : params[g].nan)
          /\ StepsLeft >= 0)
    /\ [][/\ Len(scores') >= Len(scores)
          /\ \A i \in 1..Len(scores) : scores'[i] = scores[i]
          /\ StepsLeft' < StepsLeft]_vars

C11_Witness ==
    /\ pc = "done"
    /\ Len(scores) = MaxEpisodes
    /\ scores[1] = 1
    /\ scores[MaxEpisodes] = MaxSteps
    /\ caller_scores.val = scores

====
